---- MODULE Spec2Model ----
(***************************************************************************)
(* QuantFlow front end: the order-book replica kept by the React hooks     *)
(* useWebSocket (the socket, the connected flag, the message buffer) and   *)
(* useOrderbook (the book, the latency window and the dropped counter),    *)
(* shown by Page through DepthChart.                                       *)
(*                                                                         *)
(* A level is a pair <<price, quantity>>.  A message is a record; a field  *)
(* the JSON object does not carry is a field the record does not have.     *)
(***************************************************************************)
EXTENDS Integers, Sequences, FiniteSets, TLC

(***************************************************************************)
(* Bounds of the model.                                                    *)
(***************************************************************************)
\* Levels kept per side by the incremental branch.  useOrderbook.ts:63 is
\* arr.slice(0, 50); the model runs the same code with a small limit so that
\* "more levels than the limit" is reachable with few prices.
DepthLimit == 2
\* ws.onmessage events of one run of Spec, and of one run of SpecUpsert.
MaxPush == 3
MaxUpserts == 4
\* Messages already held by the buffer when SpecWs starts, and the
\* ws.onmessage events of one run of SpecWs.
WsPrefill == 995
MaxWsPush == 420
\* Sockets one run of SpecPage creates, and its ws.onmessage events.
MaxSockets == 3
MaxPagePush == 3
\* Messages already consumed when SpecLatency starts, and the ws.onmessage
\* events of one run of SpecLatency.
LatencyPrefill == 197
MaxLatencyPush == 5

(***************************************************************************)
(* Program constants: ws.onmessage of useWebSocket, and the latency window *)
(* of useOrderbook.                                                        *)
(***************************************************************************)
WsThreshold == 1000
WsKeep == 800
LatencyWindow == 200
\* Page hands book.bids.slice(0, 10) and book.asks.slice(0, 10) to DepthChart.
ChartDepth == 10

VARIABLES
    messages,   \* useWebSocket: the messages state (an array of WsMsg)
    scheduled,  \* setMessages has queued an update React has not rendered yet
    book,       \* useOrderbook: the book state {bids, asks}
    dropped,    \* useOrderbook: dropped.current
    latency,    \* useOrderbook: latency.current
    latencyMs,  \* useOrderbook: the latencyMs memo, as last rendered
    crashed,    \* a render of the component tree has thrown
    url,        \* Page: the instrument selected (0: none, wsUrl is undefined)
    sockets,    \* useWebSocket: every WebSocket created, the last one is wsRef
    connected,  \* useWebSocket: the connected state
    paused,     \* DepthChart: the paused state
    frozenData, \* DepthChart: the frozenData state (<<>> for null)
    displayed,  \* DepthChart: the series the last render gave to the chart
    applied,    \* history: the messages the effect of useOrderbook has consumed
    arrived,    \* history: the number of ws.onmessage events so far
    recorded,   \* history: every latency sample the effect has recorded
    atPause     \* history: the series displayed when Pause was last pressed

bookVars == <<book, dropped, latency, latencyMs, crashed, applied, recorded>>
socketVars == <<url, sockets, connected>>
chartVars == <<paused, frozenData, displayed, atPause>>

vars == <<messages, scheduled, arrived, bookVars, socketVars, chartVars>>

Min(a, b) == IF a < b THEN a ELSE b

(***************************************************************************)
(* Inputs: the messages the gateway may send.                              *)
(***************************************************************************)
Quantities == {0, 1}

\* The prices the incrementals of Spec carry, and the prices the upserts of
\* SpecUpsert carry: one more than the book may keep.
BookPrices == {1, 2}
UpsertPrices == 1..(DepthLimit + 1)

\* DepthLimit + 1 levels, more than the incremental branch keeps: ascending
\* (out of order for bids) and descending (out of order for asks).
\* Their prices start at 2, so that the price 1 is not on them.
LongAsc == [i \in 1..(DepthLimit + 1) |-> <<i + 1, 1>>]
LongDesc == [i \in 1..(DepthLimit + 1) |-> <<DepthLimit + 3 - i, 1>>]

\* A list that carries the price 1 twice.
DupList == << <<1, 1>>, <<1, 0>> >>

SnapshotMsg(bids, asks) == [type |-> "snapshot", bids |-> bids, asks |-> asks]

IncrementalMsg(is_bid, update_type, level) ==
    [type |-> "incremental", is_bid |-> is_bid, update_type |-> update_type,
     level |-> level]

\* Snapshots: empty, in order and within the limit, a repeated price, out of
\* order and longer than the limit, and two that miss a side.
SnapshotMsgs ==
    { SnapshotMsg(<<>>, <<>>),
      SnapshotMsg(<< <<2, 1>>, <<1, 1>> >>, << <<1, 1>>, <<2, 1>> >>),
      SnapshotMsg(DupList, DupList),
      SnapshotMsg(LongAsc, LongDesc),
      [type |-> "snapshot", asks |-> <<>>],
      [type |-> "snapshot", bids |-> <<>>] }

UpsertMsgs ==
    { IncrementalMsg(b, 0, <<p, q>>) : b \in BOOLEAN, p \in BookPrices, q \in Quantities }
    \cup { IncrementalMsg(b, 2, <<p, 1>>) : b \in BOOLEAN, p \in BookPrices }

RemoveMsgs == { IncrementalMsg(b, 1, <<p, 0>>) : b \in BOOLEAN, p \in BookPrices }

\* update_type outside {0, 1, 2}, and an incremental without level.
OddMsgs ==
    { IncrementalMsg(b, 3, <<1, 1>>) : b \in BOOLEAN }
    \cup { [type |-> "incremental", is_bid |-> TRUE, update_type |-> 0] }

WsMsgs == SnapshotMsgs \cup UpsertMsgs \cup RemoveMsgs \cup OddMsgs

\* The upserts of SpecUpsert: any of DepthLimit + 1 prices.
ManyUpsertMsgs ==
    { IncrementalMsg(b, 0, <<p, q>>) : b \in BOOLEAN, p \in UpsertPrices, q \in Quantities }
    \cup { IncrementalMsg(b, 2, <<1, 1>>) : b \in BOOLEAN }

\* Date.now() - last.timestamp, the latency sample the effect records: one
\* value in the specifications about the book, two in SpecLatency.
Samples == {3}
LatencySamples == {1, 4}

\* The message SpecWs and SpecLatency push: one well-formed incremental, told
\* apart by seq.
SeqMsg(n) ==
    [type |-> "incremental", is_bid |-> TRUE, update_type |-> 0,
     level |-> <<1, 1>>, seq |-> n]

(***************************************************************************)
(* useOrderbook: the array operations of the setBook updater.              *)
(***************************************************************************)
\* A comparator that forgets the side: ascending for bids too.
CompareAscending(is_bid, a, b) == a[1] - b[1]

\* The comparator of arr.sort: b[0] - a[0] for bids, a[0] - b[0] for asks.
Compare(is_bid, a, b) == IF is_bid THEN b[1] - a[1] ELSE a[1] - b[1]

\* Array.prototype.sort is stable: x goes after every element that does not
\* compare greater than it.
RECURSIVE InsertStable(_, _, _)
InsertStable(is_bid, s, x) ==
    IF s = <<>> THEN <<x>>
    ELSE IF Compare(is_bid, s[Len(s)], x) <= 0 THEN Append(s, x)
    ELSE Append(InsertStable(is_bid, SubSeq(s, 1, Len(s) - 1), x), s[Len(s)])

RECURSIVE SortLevels(_, _)
SortLevels(is_bid, arr) ==
    IF arr = <<>> THEN <<>>
    ELSE InsertStable(is_bid, SortLevels(is_bid, SubSeq(arr, 1, Len(arr) - 1)),
                      arr[Len(arr)])

\* arr.findIndex(([p]) => p === price), 0 standing for JavaScript's -1.
FindIndex(arr, price) ==
    IF \E i \in 1..Len(arr) : arr[i][1] = price
    THEN CHOOSE i \in 1..Len(arr) :
            /\ arr[i][1] = price
            /\ \A j \in 1..(i - 1) : arr[j][1] # price
    ELSE 0

\* arr.filter(([p]) => p !== price)
FilterPrice(arr, price) == SelectSeq(arr, LAMBDA l : l[1] # price)

\* arr.slice(0, n)
SliceTop(arr, n) == SubSeq(arr, 1, Min(n, Len(arr)))

SideOf(is_bid) == IF is_bid THEN "bids" ELSE "asks"

\* The upsert branch (update_type 0 or 2).
Upsert(arr, level) ==
    LET i == FindIndex(arr, level[1])
    IN  IF i > 0 THEN [arr EXCEPT ![i] = level] ELSE Append(arr, level)

\* An updater that sorts and truncates both sides, not only the one updated.
ApplyIncrementalBothSides(prev, last) ==
    LET side == SideOf(last.is_bid)
        arr0 == prev[side]
        arr1 == IF last.update_type = 0 \/ last.update_type = 2
                THEN Upsert(arr0, last.level)
                ELSE IF last.update_type = 1
                     THEN FilterPrice(arr0, last.level[1])
                     ELSE arr0
    IN  [f \in {"bids", "asks"} |->
            SliceTop(SortLevels(f = "bids", IF f = side THEN arr1 ELSE prev[f]),
                     DepthLimit)]

\* The body of the setBook updater for an incremental that carries a level.
ApplyIncremental(prev, last) ==
    LET side == SideOf(last.is_bid)
        arr0 == prev[side]
        arr1 == IF last.update_type = 0 \/ last.update_type = 2
                THEN Upsert(arr0, last.level)
                ELSE IF last.update_type = 1
                     THEN FilterPrice(arr0, last.level[1])
                     ELSE arr0
    IN  [prev EXCEPT ![side] = SliceTop(SortLevels(last.is_bid, arr1), DepthLimit)]

\* A snapshot branch that takes an empty list to mean "keep this side".
ApplySnapshotKeepPrev(last) ==
    [f \in {"bids", "asks"} \cap DOMAIN last |->
        IF last[f] = <<>> THEN book[f] ELSE last[f]]

\* The snapshot branch: setBook({ bids: last.bids, asks: last.asks }).
ApplySnapshot(last) == [f \in {"bids", "asks"} \cap DOMAIN last |-> last[f]]

\* The spread memo reads book.bids[0] and book.asks[0] during render: it
\* throws a TypeError when either side is undefined.
RenderThrows(b) == ~({"bids", "asks"} \subseteq DOMAIN b)

\* n / 2 as the exact fraction: prices are integers here, a mid need not be.
Half(n) == [num |-> n, den |-> 2]

\* A spread memo with the subtraction the wrong way round.
SpreadBidMinusAsk(b) ==
    IF b.bids = <<>> \/ b.asks = <<>> THEN <<>>
    ELSE << [value |-> b.bids[1][1] - b.asks[1][1],
             mid |-> Half(b.asks[1][1] + b.bids[1][1])] >>

\* The spread memo: null (here <<>>) when book.bids[0] or book.asks[0] is
\* missing, else {value: bestAsk - bestBid, mid: (bestAsk + bestBid) / 2}
\* of the first level of each side.
Spread(b) ==
    IF b.bids = <<>> \/ b.asks = <<>> THEN <<>>
    ELSE << [value |-> b.asks[1][1] - b.bids[1][1],
             mid |-> Half(b.asks[1][1] + b.bids[1][1])] >>

\* const [price, qty] = last.level throws a TypeError when level is undefined.
UpdaterThrows(last) == "level" \notin DOMAIN last

\* A window that drops the new sample, not the oldest, once it is full.
RecordLatencyDropNewest(arr, ms) ==
    IF Len(arr) + 1 > LatencyWindow THEN arr ELSE Append(arr, ms)

\* latency.current.push(ms); if (latency.current.length > 200) shift().
RecordLatency(arr, ms) ==
    IF Len(arr) + 1 > LatencyWindow THEN Tail(Append(arr, ms)) ELSE Append(arr, ms)

\* arr.reduce((a, b) => a + b, 0); the fold is split in halves, which gives
\* the same integer, to keep the evaluation shallow on a full window.
RECURSIVE Sum(_)
Sum(arr) ==
    IF arr = <<>> THEN 0
    ELSE IF Len(arr) = 1 THEN arr[1]
    ELSE Sum(SubSeq(arr, 1, Len(arr) \div 2))
            + Sum(SubSeq(arr, Len(arr) \div 2 + 1, Len(arr)))

\* The latencyMs memo: Math.round of the mean of the window, 0 when empty.
RoundedMean(arr) ==
    IF Len(arr) = 0 THEN 0 ELSE (2 * Sum(arr) + Len(arr)) \div (2 * Len(arr))

(***************************************************************************)
(* useWebSocket: the setMessages updater of ws.onmessage.                  *)
(***************************************************************************)
\* prev.slice(-n)
SliceLast(arr, n) == SubSeq(arr, Len(arr) - Min(n, Len(arr)) + 1, Len(arr))

Concat(prev, data) ==
    IF Len(prev) > WsThreshold
    THEN Append(SliceLast(prev, WsKeep), data)
    ELSE Append(prev, data)

(***************************************************************************)
(* DepthChart: buildSide and the memo of the displayed series.             *)
(***************************************************************************)
\* buildSide: sort the levels in the side's order, then accumulate quantity.
BuildSide(levels, is_bid) ==
    LET sorted == SortLevels(is_bid, levels)
    IN  [i \in 1..Len(sorted) |->
            [price |-> sorted[i][1],
             cumulative |-> Sum([j \in 1..i |-> sorted[j][2]]),
             side |-> IF is_bid THEN "bid" ELSE "ask"]]

\* newData, from the props Page passes for book b.
ChartData(b) ==
    [bidData |-> BuildSide(SliceTop(b.bids, ChartDepth), TRUE),
     askData |-> BuildSide(SliceTop(b.asks, ChartDepth), FALSE)]

\* A memo that returns the live series whether paused or not.
ChartShownLive(p, frozen, b) == ChartData(b)

\* The memo body: what it returns, and the frozenData it leaves.
ChartShown(p, frozen, b) ==
    IF p /\ frozen # <<>> THEN frozen[1] ELSE ChartData(b)

ChartFrozen(p, frozen, b) ==
    IF p /\ frozen # <<>> THEN frozen
    ELSE IF ~p THEN <<ChartData(b)>> ELSE frozen

(***************************************************************************)
(* Initial state and actions.                                              *)
(***************************************************************************)
EmptyBook == [bids |-> <<>>, asks |-> <<>>]

\* The hooks and the chart as mounted, before any message.
InitHooks ==
    /\ messages = <<>>
    /\ scheduled = FALSE
    /\ book = EmptyBook
    /\ dropped = 0
    /\ latency = <<>>
    /\ latencyMs = 0
    /\ crashed = FALSE
    /\ paused = FALSE
    /\ frozenData = <<ChartData(EmptyBook)>>
    /\ displayed = ChartData(EmptyBook)
    /\ atPause = ChartData(EmptyBook)
    /\ applied = <<>>
    /\ arrived = 0
    /\ recorded = <<>>

\* An instrument has been selected and its socket has opened.
Streaming ==
    /\ url = 1
    /\ sockets = <<[inst |-> 1, state |-> "open"]>>
    /\ connected = TRUE

Init == InitHooks /\ Streaming

\* ws.onmessage: queue the state update; React renders later.
wsOnMessage(data) ==
    /\ ~crashed
    /\ messages' = Concat(messages, data)
    /\ scheduled' = TRUE
    /\ arrived' = arrived + 1
    /\ UNCHANGED <<bookVars, socketVars, chartVars>>

\* React renders the queued update: the latencyMs memo (deps [messages]) is
\* recomputed from the window as it stands.  Then the effect of useOrderbook
\* runs on the new messages array: it records the latency sample ms and calls
\* setBook, and React renders again for the new book: Page passes the new
\* sides to DepthChart, whose memo runs again (unless the render throws).
useOrderbookEffect(ms) ==
    /\ ~crashed
    /\ scheduled
    /\ Len(messages) # 0
    /\ latencyMs' = RoundedMean(latency)
    /\ latency' = RecordLatency(latency, ms)
    /\ recorded' = Append(recorded, ms)
    /\ LET last == messages[Len(messages)]
       IN  /\ applied' = Append(applied, last)
           /\ IF last.type = "snapshot"
              THEN /\ book' = ApplySnapshot(last)
                   /\ crashed' = RenderThrows(book')
              ELSE IF UpdaterThrows(last)
                   THEN /\ book' = book
                        /\ crashed' = TRUE
                   ELSE /\ book' = ApplyIncremental(book, last)
                        /\ crashed' = FALSE
    /\ IF crashed'
       THEN UNCHANGED <<frozenData, displayed>>
       ELSE /\ displayed' = ChartShown(paused, frozenData, book')
            /\ frozenData' = ChartFrozen(paused, frozenData, book')
    /\ scheduled' = FALSE
    /\ UNCHANGED <<messages, dropped, arrived, socketVars, paused, atPause>>

Effect == \E ms \in Samples : useOrderbookEffect(ms)

PushAny == \E data \in WsMsgs : arrived < MaxPush /\ wsOnMessage(data)

Next == PushAny \/ Effect

Spec == Init /\ [][Next]_vars

\* Upserts only, all for one side, starting from the empty book.
PushUpsert ==
    \E data \in ManyUpsertMsgs :
        /\ arrived < MaxUpserts
        /\ messages # <<>> => data.is_bid = messages[1].is_bid
        /\ wsOnMessage(data)

NextUpsert == PushUpsert \/ Effect

SpecUpsert == Init /\ [][NextUpsert]_vars

\* The buffer alone, with the constants of the source: it starts holding
\* WsPrefill messages (the state WsPrefill ws.onmessage events lead to, none of
\* them rendered yet) and takes MaxWsPush more.  useOrderbook never writes the
\* messages array, so the effect is left out of this specification.
InitWs ==
    /\ messages = [i \in 1..WsPrefill |-> SeqMsg(i)]
    /\ scheduled = TRUE
    /\ book = EmptyBook
    /\ dropped = 0
    /\ latency = <<>>
    /\ latencyMs = 0
    /\ crashed = FALSE
    /\ paused = FALSE
    /\ frozenData = <<ChartData(EmptyBook)>>
    /\ displayed = ChartData(EmptyBook)
    /\ atPause = ChartData(EmptyBook)
    /\ applied = <<>>
    /\ arrived = WsPrefill
    /\ recorded = <<>>
    /\ Streaming

PushWs == arrived < WsPrefill + MaxWsPush /\ wsOnMessage(SeqMsg(arrived + 1))

NextWs == PushWs

SpecWs == InitWs /\ [][NextWs]_vars

\* The messages of the worked scenario of the specification, and a few more
\* on the same prices, so that runs other than the scenario exist.
ScenarioSnapshot ==
    SnapshotMsg(<< <<100, 5>>, <<99, 3>> >>, << <<101, 4>>, <<102, 2>> >>)
ScenarioUpsert == IncrementalMsg(TRUE, 0, <<100, 7>>)
ScenarioRemove == IncrementalMsg(TRUE, 1, <<100, 0>>)
ScenarioMsgs ==
    {ScenarioSnapshot, ScenarioUpsert, ScenarioRemove,
     IncrementalMsg(FALSE, 2, <<101, 6>>), IncrementalMsg(FALSE, 1, <<101, 0>>),
     IncrementalMsg(TRUE, 0, <<98, 1>>)}

PushScenario == arrived < MaxPush /\ \E m \in ScenarioMsgs : wsOnMessage(m)

NextScenario == PushScenario \/ Effect

SpecScenario == Init /\ [][NextScenario]_vars

(***************************************************************************)
(* Page: the instrument select, and the sockets useWebSocket creates for   *)
(* the URLs it leads to.  Instrument 0 stands for "Select Instrument", the *)
(* option without a URL.  The prices of instrument i are 10 * i + 1 and    *)
(* 10 * i + 2, so that a level tells which instrument it was received for. *)
(***************************************************************************)
Instruments == {1, 2}

InstrumentOf(price) == price \div 10

PageMsgs(i) ==
    { [type |-> "snapshot", instrument_id |-> i,
       bids |-> << <<10 * i + 1, 1>> >>, asks |-> << <<10 * i + 2, 1>> >>],
      [type |-> "incremental", instrument_id |-> i, is_bid |-> TRUE,
       update_type |-> 0, level |-> <<10 * i + 1, 2>>] }

\* The page as mounted: no instrument selected, so no URL and no socket.
InitPage ==
    /\ InitHooks
    /\ url = 0
    /\ sockets = <<>>
    /\ connected = FALSE

\* ws.close() of the effect's cleanup: an open or connecting socket starts
\* closing, its close event comes later; a closed one stays closed.
CloseCalled(ss) ==
    IF ss # <<>> /\ ss[Len(ss)].state \in {"connecting", "open"}
    THEN [ss EXCEPT ![Len(ss)].state = "closing"]
    ELSE ss

\* setInstId: the URL changes, so the effect of useWebSocket is cleaned up for
\* the old URL and run for the new one.  messages, connected and the book
\* are left as they are.
SelectInstrument(i) ==
    /\ ~crashed
    /\ i # url
    /\ i # 0 => Len(sockets) < MaxSockets
    /\ url' = i
    /\ sockets' = IF i = 0 THEN (IF url = 0 THEN sockets ELSE CloseCalled(sockets))
                  ELSE Append(IF url = 0 THEN sockets ELSE CloseCalled(sockets),
                              [inst |-> i, state |-> "connecting"])
    /\ UNCHANGED <<messages, scheduled, arrived, bookVars, connected, chartVars>>

\* ws.onopen of socket k: setConnected(true).
wsOnOpen(k) ==
    /\ ~crashed
    /\ sockets[k].state = "connecting"
    /\ sockets' = [sockets EXCEPT ![k].state = "open"]
    /\ connected' = TRUE
    /\ UNCHANGED <<messages, scheduled, arrived, bookVars, url, chartVars>>

\* ws.onclose of socket k, whether the page closed it, the server did or the
\* connection failed: setConnected(false).  The handler stays on a socket
\* that has been replaced.
wsOnClose(k) ==
    /\ ~crashed
    /\ sockets[k].state \in {"connecting", "open", "closing"}
    /\ sockets' = [sockets EXCEPT ![k].state = "closed"]
    /\ connected' = FALSE
    /\ UNCHANGED <<messages, scheduled, arrived, bookVars, url, chartVars>>

\* A message event: only an open socket has them, and only the socket of the
\* current URL can be open.
PushPage ==
    /\ arrived < MaxPagePush
    /\ \E k \in 1..Len(sockets) :
          /\ sockets[k].state = "open"
          /\ \E m \in PageMsgs(sockets[k].inst) : wsOnMessage(m)

Select == \E i \in Instruments \cup {0} : SelectInstrument(i)

Opened == \E k \in 1..Len(sockets) : wsOnOpen(k)

Closed == \E k \in 1..Len(sockets) : wsOnClose(k)

NextPage == Select \/ Opened \/ Closed \/ PushPage \/ Effect

SpecPage == InitPage /\ [][NextPage]_vars

\* The Pause/Resume button: setPaused(p => !p), then DepthChart renders and
\* its memo runs for the new paused.  atPause keeps what was on display when
\* Pause was pressed.
ClickPause ==
    /\ ~crashed
    /\ paused' = ~paused
    /\ atPause' = IF paused' THEN displayed ELSE atPause
    /\ displayed' = ChartShown(paused', frozenData, book)
    /\ frozenData' = ChartFrozen(paused', frozenData, book)
    /\ UNCHANGED <<messages, scheduled, arrived, bookVars, socketVars>>

NextChart == PushScenario \/ Effect \/ ClickPause

SpecChart == Init /\ [][NextChart]_vars

\* The latency window near its capacity: the state LatencyPrefill messages
\* lead to when each is rendered before the next arrives and each sample is
\* 1; then MaxLatencyPush more messages, with samples of LatencySamples.
InitLatency ==
    /\ messages = [i \in 1..LatencyPrefill |-> SeqMsg(i)]
    /\ scheduled = FALSE
    /\ book = [bids |-> << <<1, 1>> >>, asks |-> <<>>]
    /\ dropped = 0
    /\ latency = [i \in 1..LatencyPrefill |-> 1]
    /\ latencyMs = 1
    /\ crashed = FALSE
    /\ paused = FALSE
    /\ frozenData = <<ChartData(book)>>
    /\ displayed = ChartData(book)
    /\ atPause = ChartData(EmptyBook)
    /\ applied = messages
    /\ arrived = LatencyPrefill
    /\ recorded = latency
    /\ Streaming

PushLatency ==
    /\ arrived < LatencyPrefill + MaxLatencyPush
    /\ wsOnMessage(SeqMsg(arrived + 1))

EffectLatency == \E ms \in LatencySamples : useOrderbookEffect(ms)

NextLatency == PushLatency \/ EffectLatency

SpecLatency == InitLatency /\ [][NextLatency]_vars

(***************************************************************************)
(* Properties.                                                             *)
(***************************************************************************)
Sides == {"bids", "asks"}

Last(s) == s[Len(s)]

\* Strictly descending prices for bids, strictly ascending for asks.
StrictlyOrdered(is_bid, arr) ==
    \A i \in 1..(Len(arr) - 1) : Compare(is_bid, arr[i], arr[i + 1]) < 0

\* The effect has just consumed a message.
Consumed == applied' # applied

\* C1: after any sequence of applied messages the bid side is sorted strictly
\* descending by price and the ask side strictly ascending, no price twice.
C1_OrderingInvariant ==
    \A f \in Sides \cap DOMAIN book : StrictlyOrdered(f = "bids", book[f])

\* C2: in every reachable state each side of the book holds at most DepthLimit
\* levels, also after a snapshot that carries more.
C2_DepthBound ==
    \A f \in Sides \cap DOMAIN book : Len(book[f]) <= DepthLimit

\* C3: a snapshot discards the prior state: whenever the message consumed last
\* is a snapshot, each side of the book is that snapshot's list for the side,
\* whatever was consumed before it; so the same snapshot consumed twice in a
\* row leaves the same book both times.
C3_SnapshotDiscardsPriorState ==
    (applied # <<>> /\ Last(applied).type = "snapshot")
        => /\ DOMAIN book = Sides \cap DOMAIN Last(applied)
           /\ \A f \in DOMAIN book : book[f] = Last(applied)[f]

\* The same snapshot consumed twice in a row, after an incremental had put a
\* level on the bid side.
C3_Witness ==
    /\ Len(applied) = 3
    /\ applied[1] = IncrementalMsg(TRUE, 0, <<1, 1>>)
    /\ applied[2] = SnapshotMsg(<<>>, <<>>)
    /\ applied[3] = applied[2]
    /\ book = [bids |-> <<>>, asks |-> <<>>]

IsPrefix(s, t) == Len(s) <= Len(t) /\ SubSeq(t, 1, Len(s)) = s

\* The messages evicted from the buffer so far.
Evicted == arrived - Len(messages)

\* C4: the messages applied to the book are the messages pushed and not
\* evicted, in arrival order: at every moment a prefix of them, and all of
\* them once the consumer has run on the latest push.
C4_FifoDelivery ==
    (Evicted = 0 /\ ~crashed) =>
        /\ IsPrefix(applied, messages)
        /\ (~scheduled => applied = messages)

\* C5: the buffer never holds more than 1000 messages, and a push that finds
\* 1000 of them evicts the oldest 200 and leaves the other 800, in their
\* order, followed by the new message.
C5_BufferBound ==
    [][ /\ Len(messages') <= 1000
        /\ (Len(messages) = 1000 /\ arrived' = arrived + 1)
              => /\ Len(messages') = 801
                 /\ SubSeq(messages', 1, 800) = SubSeq(messages, 201, 1000) ]_vars

\* C6: droppedCount counts the evicted messages: after any sequence of pushes
\* it has grown by exactly the number of messages evicted.
C6_DropAccounting == dropped = Evicted

\* The prices of the levels of a list.
PricesOf(arr) == { arr[i][1] : i \in 1..Len(arr) }

HasLevel(m) == m.type = "incremental" /\ "level" \in DOMAIN m

\* A message that misses a required field.
MissesField(m) ==
    \/ m.type = "incremental" /\ "level" \notin DOMAIN m
    \/ m.type = "snapshot" /\ ~({"bids", "asks"} \subseteq DOMAIN m)

\* C7: an incremental whose update_type is outside {0, 1, 2} leaves both sides
\* of the book unchanged and adds exactly one to droppedCount.
C7_UnknownUpdateTypeDropped ==
    [][ (Consumed /\ HasLevel(Last(applied'))
            /\ Last(applied').update_type \notin {0, 1, 2})
          => (book' = book /\ dropped' = dropped + 1) ]_vars

\* C8: a message that misses a required field never raises: the book is
\* unchanged, droppedCount is incremented, and the component keeps consuming.
C8_MissingFieldDropped ==
    [][ (Consumed /\ MissesField(Last(applied')))
          => (~crashed' /\ book' = book /\ dropped' = dropped + 1) ]_vars

\* C9: Upsert(p, q) then Remove(p) applied to an empty side leaves the side
\* empty; and a Remove of a price that is not on the side leaves the side's
\* levels exactly as they were and records no drop.
C9_RemoveAbsentIsNoOp ==
    [][ /\ \A b \in BOOLEAN, p \in BookPrices, q \in Quantities, u \in {0, 2} :
            (Consumed /\ applied' = <<IncrementalMsg(b, u, <<p, q>>),
                                      IncrementalMsg(b, 1, <<p, 0>>)>>)
                => book'[SideOf(b)] = <<>>
        /\ (Consumed /\ HasLevel(Last(applied'))
              /\ Last(applied').update_type = 1
              /\ Last(applied').level[1] \notin PricesOf(book[SideOf(Last(applied').is_bid)]))
            => (book' = book /\ dropped' = dropped) ]_vars

\* The upserts consumed so far for one side.
UpsertsOf(is_bid) ==
    SelectSeq(applied, LAMBDA m : HasLevel(m) /\ m.is_bid = is_bid
                                  /\ m.update_type \in {0, 2})

\* The quantity of the latest upsert of price p in ups.
LatestQuantity(ups, p) ==
    LET i == CHOOSE i \in 1..Len(ups) :
                /\ ups[i].level[1] = p
                /\ \A j \in (i + 1)..Len(ups) : ups[j].level[1] # p
    IN  ups[i].level[2]

\* Price p is better than price r on the side: higher for bids, lower for asks.
Better(is_bid, p, r) == IF is_bid THEN p > r ELSE p < r

\* The n best of the prices ps.
BestPrices(is_bid, ps, n) ==
    { p \in ps : Cardinality({ r \in ps : Better(is_bid, r, p) }) < n }

\* C10: once more than DepthLimit distinct prices have been upserted on a side
\* that started empty, in any order, the side holds exactly the DepthLimit
\* best of those prices, each with the quantity of its latest upsert.
C10_TruncationKeepsBest ==
    \A b \in BOOLEAN :
        LET ups == UpsertsOf(b)
            ps  == { ups[i].level[1] : i \in 1..Len(ups) }
            arr == book[SideOf(b)]
        IN  Cardinality(ps) > DepthLimit
              => /\ Len(arr) = DepthLimit
                 /\ { arr[i] : i \in 1..Len(arr) }
                      = { <<p, LatestQuantity(ups, p)>> : p \in BestPrices(b, ps, DepthLimit) }

\* DepthLimit + 1 distinct prices upserted on the bid side, the best one last,
\* so that the level upserted first has been cut off; then the price DepthLimit
\* upserted again with another quantity.
C10_Witness ==
    /\ Len(UpsertsOf(TRUE)) = DepthLimit + 2
    /\ \A i \in 1..(DepthLimit + 1) : UpsertsOf(TRUE)[i].level = <<i, 1>>
    /\ UpsertsOf(TRUE)[DepthLimit + 2].level = <<DepthLimit, 0>>
    /\ book.bids = << <<DepthLimit + 1, 1>>, <<DepthLimit, 0>> >>

\* C11: an upsert whose quantity is 0 is a removal: once it is applied the
\* side holds no level at its price.
C11_ZeroQuantityRemoves ==
    [][ (Consumed /\ HasLevel(Last(applied'))
            /\ Last(applied').update_type \in {0, 2}
            /\ Last(applied').level[2] = 0)
          => Last(applied').level[1]
                \notin PricesOf(book'[SideOf(Last(applied').is_bid)]) ]_vars

\* The last n elements of s (all of s when it is shorter).
LastN(s, n) == SubSeq(s, Len(s) - Min(n, Len(s)) + 1, Len(s))

ScenarioUpTo(n) ==
    applied = SubSeq(<<ScenarioSnapshot, ScenarioUpsert, ScenarioRemove>>, 1, n)

ScenarioStart ==
    /\ ScenarioUpTo(1) =>
          Spread(book) = << [value |-> 1, mid |-> Half(201)] >>
    /\ ScenarioUpTo(2) =>
          /\ book.bids[1] = <<100, 7>>
          /\ Spread(book) = << [value |-> 1, mid |-> Half(201)] >>

C13_Scenario ==
    /\ ScenarioStart
    /\ ScenarioUpTo(3) =>
          /\ book.bids = << <<99, 3>> >>
          /\ Spread(book) = << [value |-> 2, mid |-> Half(200)] >>

\* C13 as the scenario states its last step: mid = 100.5 after the removal.
C13_ScenarioAsStated ==
    /\ ScenarioStart
    /\ ScenarioUpTo(3) =>
          /\ book.bids = << <<99, 3>> >>
          /\ Spread(book) = << [value |-> 2, mid |-> Half(201)] >>

\* The three messages of the scenario applied one by one.
C13_Witness ==
    /\ ScenarioUpTo(3)
    /\ book.bids = << <<99, 3>> >>
    /\ book.asks = << <<101, 4>>, <<102, 2>> >>

\* C14: spread and mid are null exactly when a side is empty; otherwise
\* spread is the lowest ask price held minus the highest bid price held, and
\* mid is half their sum.
MaxOf(S) == CHOOSE x \in S : \A y \in S : y <= x
MinOf(S) == CHOOSE x \in S : \A y \in S : x <= y

C14_SpreadOfBest ==
    ~crashed =>
        Spread(book) =
            IF book.bids = <<>> \/ book.asks = <<>> THEN <<>>
            ELSE << [value |-> MinOf(PricesOf(book.asks)) - MaxOf(PricesOf(book.bids)),
                     mid |-> Half(MinOf(PricesOf(book.asks))
                                    + MaxOf(PricesOf(book.bids)))] >>

\* C15: once a message has been applied, the latencyMs handed to the page is
\* the rounded mean of the window that holds that message's sample, and it is
\* 0 only when no message has been applied.
C15_LatencyIncludesApplied ==
    (applied # <<>> /\ ~crashed) =>
        /\ Last(recorded) = Last(latency)
        /\ latencyMs = RoundedMean(latency)
        /\ latencyMs # 0

\* C16: an upsert with update_type 0 and one with update_type 2 act alike;
\* neither adds a second level at a price the side already holds; and the
\* price is held with the new quantity afterwards whenever fewer than
\* depthLimit prices of the side are better than it.
CountAt(arr, price) == Cardinality({ i \in 1..Len(arr) : arr[i][1] = price })

BetterPrices(is_bid, arr, price) ==
    { x \in PricesOf(arr) : IF is_bid THEN x > price ELSE x < price }

UpsertTwin(m) == [m EXCEPT !.update_type = 2 - @]

C16_UpsertAndUpsertAlt ==
    [][ (Consumed /\ HasLevel(Last(applied'))
            /\ Last(applied').update_type \in {0, 2})
          => LET m    == Last(applied')
                 side == SideOf(m.is_bid)
             IN  /\ book' = ApplyIncremental(book, UpsertTwin(m))
                 /\ CountAt(book'[side], m.level[1])
                        <= IF CountAt(book[side], m.level[1]) = 0 THEN 1
                           ELSE CountAt(book[side], m.level[1])
                 /\ Cardinality(BetterPrices(m.is_bid, book[side], m.level[1]))
                        < DepthLimit
                      => \E i \in 1..Len(book'[side]) : book'[side][i] = m.level
       ]_vars

\* C17: applying an incremental for one side leaves the other side as it
\* was, same levels in the same order, whatever the update_type.
C17_OtherSideUnchanged ==
    [][ (Consumed /\ Last(applied').type = "incremental")
          => book'[SideOf(~Last(applied').is_bid)]
                = book[SideOf(~Last(applied').is_bid)] ]_vars

\* A bid upsert applied to a book whose ask side a snapshot left unsorted and
\* longer than the depth limit: the ask side is still as the snapshot gave it.
C17_Witness ==
    /\ applied = <<SnapshotMsg(LongAsc, LongDesc), IncrementalMsg(TRUE, 0, <<1, 1>>)>>
    /\ book.asks = LongDesc
    /\ book.bids # LongAsc

\* C18: once the instrument has been changed and a message of the new one
\* has been applied, the buffer holds only messages of the selected
\* instrument and the book only levels received for it.
C18_OnlySelectedInstrument ==
    (url # 0 /\ ~crashed /\ applied # <<>> /\ Last(applied).instrument_id = url)
        => /\ \A k \in 1..Len(messages) : messages[k].instrument_id = url
           /\ \A f \in Sides : \A p \in PricesOf(book[f]) : InstrumentOf(p) = url

\* C19: when no socket is connecting or closing, connected is true exactly
\* when the socket of the current URL is open.
CurrentOpen == url # 0 /\ sockets[Len(sockets)].state = "open"

Settled == \A k \in 1..Len(sockets) : sockets[k].state \in {"open", "closed"}

C19_ConnectedIffCurrentOpen == Settled => (connected <=> CurrentOpen)

\* C20: while the chart is paused it shows the series that was on display
\* when Pause was pressed, whatever happens to the book; when it is not
\* paused it shows the cumulative series of the current bids and asks.
C20_PauseFreezesChart ==
    ~crashed =>
        /\ paused => displayed = atPause
        /\ ~paused => displayed = ChartData(book)

\* Paused, and the book has moved on since: the chart shows the bids of the
\* scenario's snapshot, the book holds the upsert applied after Pause.
C20_Witness ==
    /\ paused
    /\ applied = <<ScenarioSnapshot, ScenarioUpsert>>
    /\ displayed = ChartData(ApplySnapshot(ScenarioSnapshot))
    /\ displayed # ChartData(book)

\* Resumed after such a pause: the chart shows the current book again.
C20_WitnessResumed ==
    /\ ~paused
    /\ applied = <<ScenarioSnapshot, ScenarioUpsert>>
    /\ atPause = ChartData(ApplySnapshot(ScenarioSnapshot))
    /\ displayed = ChartData(book)

====
